---- MODULE Spec2Model ----
(***************************************************************************)
(* Model of qrcodeproject2.py: generate_qr_code_with_logo and the script's *)
(* main block.  Images are modelled pixel by pixel (grey value, alpha);    *)
(* the QR encoder, the rasterizer and the Pillow operations the function   *)
(* calls are modelled by what they do to sizes and pixels.                 *)
(***************************************************************************)
EXTENDS Integers, Sequences, FiniteSets, TLC

VARIABLES
    pc,                 \* position in the script / the function
    stdin,              \* the two answers typed at the prompts (main block)
    args,               \* data, filename, box_size, border, logo_path
    qr,                 \* the QRCode object
    img,                \* the raster being composed
    width, height,      \* img.size
    logo,               \* the opened (then resized) logo
    logo_size,
    logo_position,
    rectangle_position,
    fs,                 \* the file system: path -> content
    error,              \* the exception raised in this call and the statement that raised it
    log,                \* history: the steps this call has completed
    writes,             \* history: file writes done by this call
    raster,             \* history: img as make_image/convert returned it
    fs0,                \* history: fs when this call started
    loaded,             \* history: the logo file content this call opened
    calls,              \* history: number of calls started
    prev                \* history: what the previous successful call loaded and saved

vars == <<pc, stdin, args, qr, img, width, height, logo, logo_size, logo_position,
          rectangle_position, fs, error, log, writes, raster, fs0, loaded, calls, prev>>

---------------------------------------------------------------------------
(* Bounds of the model *)
MaxBoxSize == 2
MaxBorder == 2
MaxCalls == 2

---------------------------------------------------------------------------
(* Program constants *)
padding == 10
DefaultBoxSize == 10
DefaultBorder == 2
SeedVersion == 1
SizeDivisor == 8

---------------------------------------------------------------------------
(* Strings are sequences of characters *)
Quote == "\""

RECURSIVE LStrip(_)
LStrip(s) == IF s # << >> /\ Head(s) = Quote THEN LStrip(Tail(s)) ELSE s

RECURSIVE RStrip(_)
RStrip(s) ==
    IF s # << >> /\ s[Len(s)] = Quote THEN RStrip(SubSeq(s, 1, Len(s) - 1)) ELSE s

\* str.strip('"'): every leading and every trailing double quote is removed
StripQuotes(s) == RStrip(LStrip(s))

\* an optional string: None, or a string (possibly empty)
None == [some |-> FALSE, val |-> << >>]
Str(s) == [some |-> TRUE, val |-> s]

\* variant: `if logo_path is not None`
TruthyNotNone(p) == p.some

\* Python truthiness of `logo_path`: None and "" are falsy
Truthy(p) == p.some /\ Len(p.val) > 0

---------------------------------------------------------------------------
(* Pixels and images *)
Black == <<0, 255>>
White == <<255, 255>>
NoImage == [w |-> 0, h |-> 0, px |-> << >>]

\* the pixel array of a w x h image is px[x][y], x the column and y the row
Cols(w) == 0 .. (w - 1)
Rows(h) == 0 .. (h - 1)

Min(a, b) == IF a <= b THEN a ELSE b

---------------------------------------------------------------------------
(* The QR encoder (qrcode.QRCode): version selection and the symbol matrix *)

\* a payload is abstracted to its length in bytes (encoded in byte mode) and
\* a content seed
Payload(len, seed) == [len |-> len, seed |-> seed]

\* bytes that fit in versions 1..40 at error correction level H (byte mode)
ByteCapacityH ==
    <<7, 14, 24, 34, 44, 58, 64, 84, 98, 119,
      137, 155, 177, 194, 220, 250, 280, 310, 338, 382,
      403, 439, 461, 511, 535, 593, 625, 658, 698, 742,
      790, 842, 898, 958, 983, 1051, 1093, 1139, 1219, 1273>>

Versions == 1 .. Len(ByteCapacityH)

RECURSIVE SumLen(_)
SumLen(dl) == IF dl = << >> THEN 0 ELSE Head(dl).len + SumLen(Tail(dl))

RECURSIVE SumSeed(_)
SumSeed(dl) == IF dl = << >> THEN 0 ELSE Head(dl).seed + SumSeed(Tail(dl))

\* variant: box_size and border handed over in each other's place
QRCodeSwapped(old, box_size, border) ==
    [box_size |-> border, border |-> box_size, version |-> SeedVersion,
     data_list |-> << >>, modules_count |-> 0]

\* variant: one QRCode object kept across calls, its data list never cleared
QRCodeKeepData(old, box_size, border) ==
    [box_size |-> box_size, border |-> border, version |-> SeedVersion,
     data_list |-> old.data_list, modules_count |-> 0]

\* QRCode(version=1, error_correction=H, box_size, border): a fresh object
\* with an empty data list
QRCode(old, box_size, border) ==
    [box_size |-> box_size, border |-> border, version |-> SeedVersion,
     data_list |-> << >>, modules_count |-> 0]

\* qr.add_data(data)
AddDataTo(q, data) == [q EXCEPT !.data_list = Append(@, data)]

\* make(fit=True): the smallest version, from the seed version up, that holds
\* the data; 0 when none does (DataOverflowError)
BestFit(start, dl) ==
    LET fits == {v \in Versions : v >= start /\ ByteCapacityH[v] >= SumLen(dl)}
    IN  IF fits = {} THEN 0 ELSE CHOOSE v \in fits : \A u \in fits : v <= u

ModulesCount(version) == 17 + 4 * version

\* the three finder patterns of a symbol of n x n modules
InFinder(r, c, n) ==
    \/ r < 7 /\ c < 7
    \/ r < 7 /\ c >= n - 7
    \/ r >= n - 7 /\ c < 7

FinderDark(r, c, n) ==
    LET rr == IF r >= n - 7 THEN r - (n - 7) ELSE r
        cc == IF c >= n - 7 THEN c - (n - 7) ELSE c
    IN  \/ rr \in {0, 6} \/ cc \in {0, 6}
        \/ (rr \in 2 .. 4 /\ cc \in 2 .. 4)

\* the matrix the encoder builds: a fixed function of the data and the version
Dark(q, r, c) ==
    LET n == q.modules_count
        k == SumLen(q.data_list) + SumSeed(q.data_list)
    IN  IF InFinder(r, c, n) THEN FinderDark(r, c, n)
        ELSE (r * c + 2 * r + c + k) % 3 = 0

\* pixel size of the rasterized symbol
PixelSize(q) == (q.modules_count + 2 * q.border) * q.box_size

\* make_image(fill_color="black", back_color="white").convert("RGBA")
MakeImage(q) ==
    LET s == PixelSize(q)
    IN  [w |-> s, h |-> s,
         px |-> [x \in Cols(s) |-> [y \in Rows(s) |->
                   LET c == (x \div q.box_size) - q.border
                       r == (y \div q.box_size) - q.border
                   IN  IF /\ r \in 0 .. (q.modules_count - 1)
                          /\ c \in 0 .. (q.modules_count - 1)
                          /\ Dark(q, r, c)
                       THEN Black ELSE White]]]

---------------------------------------------------------------------------
(* Pillow operations *)

\* Image.resize((w, h), LANCZOS): the result has exactly the requested size,
\* whatever the input's size and aspect ratio; the resampler is a fixed
\* function of the input (sampled here at the nearest source pixel)
Resize(im, w, h) ==
    [w |-> w, h |-> h,
     px |-> [x \in Cols(w) |-> [y \in Rows(h) |->
               im.px[(x * im.w) \div w][(y * im.h) \div h]]]]

\* ImageDraw.rectangle([x0, y0, x1, y1], fill): both corners are inside the
\* filled area; the part outside the image is clipped
DrawRectangle(im, xy, fill) ==
    [im EXCEPT !.px =
        [x \in Cols(im.w) |-> [y \in Rows(im.h) |->
            IF /\ xy[1] <= x /\ x <= xy[3]
               /\ xy[2] <= y /\ y <= xy[4]
            THEN fill ELSE im.px[x][y]]]]

Div255(t) == LET tmp == t + 128 IN ((tmp \div 256) + tmp) \div 256
Blend8(m, a, b) ==
    IF m = 0 THEN a ELSE IF m = 255 THEN b ELSE Div255(a * (255 - m) + b * m)

\* Image.paste(src, pos, mask): each band of the destination is blended with
\* the source by the mask's alpha; the image size never changes
Paste(im, src, pos, mask) ==
    [im EXCEPT !.px =
        [x \in Cols(im.w) |-> [y \in Rows(im.h) |->
            LET u == x - pos[1]
                v == y - pos[2]
            IN  IF u \in 0 .. (src.w - 1) /\ v \in 0 .. (src.h - 1)
                THEN <<Blend8(mask.px[u][v][2], im.px[x][y][1], src.px[u][v][1]),
                       Blend8(mask.px[u][v][2], im.px[x][y][2], src.px[u][v][2])>>
                ELSE im.px[x][y]]]]

---------------------------------------------------------------------------
(* Files *)
Absent == [img |-> NoImage, kind |-> "absent"]
TextFile == [img |-> NoImage, kind |-> "text"]
ImageFile(im) == [img |-> im, kind |-> "image"]

OutPath == <<"q">>          \* "qrCode.png", the default filename
LogoPath == <<"l">>         \* an image file
TextPath == <<"t">>         \* a file that is no image
MissingPath == <<"m">>      \* no such file
NoDirPath == <<"n">>        \* a path in a directory that does not exist
Paths == {OutPath, LogoPath, TextPath, MissingPath, NoDirPath}
Writable(path) == path # NoDirPath

\* the logo files tried: opaque square, non-square with a transparent, a
\* half-transparent and an opaque pixel, fully transparent
Logos ==
    { [w |-> 2, h |-> 2, px |-> [x \in Cols(2) |-> [y \in Rows(2) |-> <<60 + 40 * x + 20 * y, 255>>]]],
      [w |-> 3, h |-> 1, px |-> [x \in Cols(3) |-> [y \in Rows(1) |-> <<90, (x * 255) \div 2>>]]],
      [w |-> 1, h |-> 2, px |-> [x \in Cols(1) |-> [y \in Rows(2) |-> <<0, 0>>]]] }

---------------------------------------------------------------------------
(* Geometry of the logo branch *)
\* variant: a wrong divisor
LogoSizeThirtySecond(w, h) == Min(w, h) \div (4 * SizeDivisor)

LogoSize(w, h) == Min(w, h) \div SizeDivisor

\* variant: the logo's own size not subtracted
LogoPositionHalf(w, h, lg) == <<w \div 2, h \div 2>>

LogoPosition(w, h, lg) == <<(w - lg.w) \div 2, (h - lg.h) \div 2>>

\* variant: the rectangle is the logo's box, the padding left out
RectanglePositionNoPad(pos, lg) ==
    <<pos[1], pos[2], pos[1] + lg.w, pos[2] + lg.h>>

RectanglePosition(pos, lg) ==
    <<pos[1] - padding, pos[2] - padding,
      pos[1] + lg.w + padding, pos[2] + lg.h + padding>>

---------------------------------------------------------------------------
(* Control flow of generate_qr_code_with_logo: the statement that follows   *)
(* each statement, and where an exception leads                            *)
\* variant: the logo pasted before the padding rectangle is drawn
AfterPasteFirst(step, a) ==
    CASE step = "QRCode" -> "add_data"
      [] step = "add_data" -> "make"
      [] step = "make" -> "make_image"
      [] step = "make_image" -> IF Truthy(a.logo_path) THEN "open" ELSE "save"
      [] step = "open" -> "resize"
      [] step = "resize" -> "position"
      [] step = "position" -> "paste"
      [] step = "paste" -> "rectangle"
      [] step = "rectangle" -> "save"
      [] step = "save" -> "done"

After(step, a) ==
    CASE step = "QRCode" -> "add_data"
      [] step = "add_data" -> "make"
      [] step = "make" -> "make_image"
      [] step = "make_image" -> IF Truthy(a.logo_path) THEN "open" ELSE "save"
      [] step = "open" -> "resize"
      [] step = "resize" -> "position"
      [] step = "position" -> "rectangle"
      [] step = "rectangle" -> "paste"
      [] step = "paste" -> "save"
      [] step = "save" -> "done"

\* variant: a failure to open the logo is swallowed and the QR saved without it
RaiseSwallowed(step) == IF step = "open" THEN "save" ELSE "failed"

\* no statement is inside a try block: an exception leaves the function
Raise(step) == "failed"

LogoSteps == {"open", "resize", "position", "rectangle", "paste"}

---------------------------------------------------------------------------
(* Inputs tried *)
TooLong == ByteCapacityH[Len(ByteCapacityH)] + 1
Payloads == {Payload(5, 1), Payload(12, 2), Payload(TooLong, 3)}
Answers ==
    {<< >>, <<Quote, Quote>>, LogoPath, <<Quote>> \o LogoPath \o <<Quote>>,
     <<Quote>> \o MissingPath}
LogoArgs == {None, Str(<< >>), Str(LogoPath), Str(TextPath), Str(MissingPath)}
Filenames == {OutPath, LogoPath, NoDirPath}

NoError == [exc |-> "none", at |-> "none"]
NoPrev == [loaded |-> Absent, ok |-> FALSE, out |-> NoImage]
NoQR == [box_size |-> 0, border |-> 0, version |-> 0, data_list |-> << >>,
         modules_count |-> 0]
NoArgs == [box_size |-> 0, border |-> 0, data |-> Payload(0, 0), logo_path |-> None,
           filename |-> << >>]

Init ==
    /\ pc = "start"
    /\ stdin = << >>
    /\ args = NoArgs
    /\ qr = NoQR
    /\ img = NoImage
    /\ width = 0 /\ height = 0
    /\ logo = NoImage
    /\ logo_size = 0
    /\ logo_position = <<0, 0>>
    /\ rectangle_position = <<0, 0, 0, 0>>
    /\ \E lg \in Logos :
          fs = [p \in Paths |-> CASE p = LogoPath -> ImageFile(lg)
                                  [] p = TextPath -> TextFile
                                  [] OTHER -> Absent]
    /\ error = NoError
    /\ log = << >>
    /\ writes = 0
    /\ raster = NoImage
    /\ fs0 = fs
    /\ loaded = Absent
    /\ calls = 0
    /\ prev = NoPrev

locals == <<img, width, height, logo, logo_size, logo_position, rectangle_position>>

\* entering the function: fresh locals, nothing done yet
Enter(a) ==
    /\ args' = a
    /\ pc' = "QRCode"
    /\ img' = NoImage
    /\ width' = 0 /\ height' = 0
    /\ logo' = NoImage
    /\ logo_size' = 0
    /\ logo_position' = <<0, 0>>
    /\ rectangle_position' = <<0, 0, 0, 0>>
    /\ error' = NoError
    /\ log' = << >>
    /\ writes' = 0
    /\ raster' = NoImage
    /\ fs0' = fs
    /\ loaded' = Absent
    /\ calls' = calls + 1
    /\ UNCHANGED <<qr, fs>>

\* the main block: two prompts, the second answer stripped of double quotes,
\* then the call with the default filename, box_size and border
Main(d, answer) ==
    /\ pc = "start"
    /\ stdin' = <<d, answer>>
    /\ Enter([box_size |-> DefaultBoxSize, border |-> DefaultBorder, data |-> d,
              logo_path |-> Str(StripQuotes(answer)), filename |-> OutPath])
    /\ UNCHANGED prev

\* a direct call of the function
Call(a) ==
    /\ pc = "start"
    /\ Enter(a)
    /\ UNCHANGED <<stdin, prev>>

\* the same call once more, with identical arguments
Again ==
    /\ pc = "done"
    /\ calls < MaxCalls
    /\ prev' = [loaded |-> loaded, ok |-> TRUE, out |-> fs[args.filename].img]
    /\ Enter(args)
    /\ UNCHANGED stdin

\* bookkeeping shared by the statements: a statement that completed
Done(step) ==
    /\ pc' = After(step, args)
    /\ log' = Append(log, step)
    /\ error' = error

\* a statement that raised
Failed(step, exc) ==
    /\ pc' = Raise(step)
    /\ error' = [exc |-> exc, at |-> step]
    /\ log' = log

NewQRCode ==
    /\ pc = "QRCode"
    /\ qr' = QRCode(qr, args.box_size, args.border)
    /\ Done("QRCode")
    /\ UNCHANGED <<stdin, args, locals, fs, writes, raster, fs0, loaded, calls, prev>>

AddData ==
    /\ pc = "add_data"
    /\ qr' = AddDataTo(qr, args.data)
    /\ Done("add_data")
    /\ UNCHANGED <<stdin, args, locals, fs, writes, raster, fs0, loaded, calls, prev>>

Make ==
    /\ pc = "make"
    /\ LET v == BestFit(qr.version, qr.data_list)
       IN  IF v = 0
           THEN Failed("make", "DataOverflowError") /\ UNCHANGED qr
           ELSE /\ qr' = [qr EXCEPT !.version = v, !.modules_count = ModulesCount(v)]
                /\ Done("make")
    /\ UNCHANGED <<stdin, args, locals, fs, writes, raster, fs0, loaded, calls, prev>>

\* lines 48-51: rasterize, convert, read the size
Rasterize ==
    /\ pc = "make_image"
    /\ img' = MakeImage(qr)
    /\ width' = img'.w
    /\ height' = img'.h
    /\ raster' = img'
    /\ Done("make_image")
    /\ UNCHANGED <<stdin, args, qr, logo, logo_size, logo_position, rectangle_position,
                   fs, writes, fs0, loaded, calls, prev>>

\* Image.open(logo_path).convert("RGBA")
OpenLogo ==
    /\ pc = "open"
    /\ LET f == IF args.logo_path.val \in Paths THEN fs[args.logo_path.val] ELSE Absent
       IN  /\ loaded' = f
           /\ CASE f.kind = "image" -> logo' = f.img /\ Done("open")
                [] f.kind = "text" ->
                     Failed("open", "UnidentifiedImageError") /\ UNCHANGED logo
                [] OTHER -> Failed("open", "FileNotFoundError") /\ UNCHANGED logo
    /\ UNCHANGED <<stdin, args, qr, img, width, height, logo_size, logo_position,
                   rectangle_position, fs, writes, raster, fs0, calls, prev>>

\* lines 59-62: the logo side, and the resize to (side, side)
ResizeLogo ==
    /\ pc = "resize"
    /\ logo_size' = LogoSize(width, height)
    /\ IF logo_size' <= 0
       THEN Failed("resize", "ValueError") /\ UNCHANGED logo
       ELSE logo' = Resize(logo, logo_size', logo_size') /\ Done("resize")
    /\ UNCHANGED <<stdin, args, qr, img, width, height, logo_position,
                   rectangle_position, fs, writes, raster, fs0, loaded, calls, prev>>

\* lines 65-74: where the logo goes, and the padding rectangle around it
Position ==
    /\ pc = "position"
    /\ logo_position' = LogoPosition(width, height, logo)
    /\ rectangle_position' = RectanglePosition(logo_position', logo)
    /\ Done("position")
    /\ UNCHANGED <<stdin, args, qr, img, width, height, logo, logo_size,
                   fs, writes, raster, fs0, loaded, calls, prev>>

\* lines 77-79
DrawPadding ==
    /\ pc = "rectangle"
    /\ img' = DrawRectangle(img, rectangle_position, White)
    /\ Done("rectangle")
    /\ UNCHANGED <<stdin, args, qr, width, height, logo, logo_size, logo_position,
                   rectangle_position, fs, writes, raster, fs0, loaded, calls, prev>>

\* line 82
PasteLogo ==
    /\ pc = "paste"
    /\ img' = Paste(img, logo, logo_position, logo)
    /\ Done("paste")
    /\ UNCHANGED <<stdin, args, qr, width, height, logo, logo_size, logo_position,
                   rectangle_position, fs, writes, raster, fs0, loaded, calls, prev>>

\* line 85: img.save(filename)
Save ==
    /\ pc = "save"
    /\ IF Writable(args.filename)
       THEN /\ fs' = [fs EXCEPT ![args.filename] = ImageFile(img)]
            /\ writes' = writes + 1
            /\ Done("save")
       ELSE Failed("save", "FileNotFoundError") /\ UNCHANGED <<fs, writes>>
    /\ UNCHANGED <<stdin, args, qr, locals, raster, fs0, loaded, calls, prev>>

Next ==
    \/ \E d \in Payloads, a \in Answers : Main(d, a)
    \/ \E d \in Payloads, f \in Filenames, b \in 1 .. MaxBoxSize,
          m \in 1 .. MaxBorder, l \in LogoArgs :
          Call([box_size |-> b, border |-> m, data |-> d, logo_path |-> l,
                filename |-> f])
    \/ Again
    \/ NewQRCode
    \/ AddData
    \/ Make
    \/ Rasterize
    \/ OpenLogo
    \/ ResizeLogo
    \/ Position
    \/ DrawPadding
    \/ PasteLogo
    \/ Save

Spec == Init /\ [][Next]_vars

---------------------------------------------------------------------------
(* The sizes and positions alone, for every version the encoder can select: *)
(* the same statements, with the raster's size computed and its pixels not  *)
(* materialised                                                            *)
Lengths == {ByteCapacityH[v] : v \in Versions} \cup {TooLong}

\* lines 48-51, the size only
Measure ==
    /\ pc = "make_image"
    /\ width' = PixelSize(qr)
    /\ height' = PixelSize(qr)
    /\ Done("make_image")
    /\ UNCHANGED <<stdin, args, qr, img, logo, logo_size, logo_position,
                   rectangle_position, fs, writes, raster, fs0, loaded, calls, prev>>

SizeNext ==
    \/ \E n \in Lengths, b \in 1 .. MaxBoxSize, m \in 1 .. MaxBorder :
          Call([box_size |-> b, border |-> m, data |-> Payload(n, 1),
                logo_path |-> Str(LogoPath), filename |-> OutPath])
    \/ NewQRCode
    \/ AddData
    \/ Make
    \/ Measure
    \/ OpenLogo
    \/ ResizeLogo
    \/ Position

SizeSpec == Init /\ [][SizeNext]_vars

---------------------------------------------------------------------------
(* Properties *)

\* a logo path was given: neither None nor the empty string
LogoGiven == args.logo_path.some /\ args.logo_path.val # << >>

\* the file the call saved
Saved == fs[args.filename].img

Max(a, b) == IF a >= b THEN a ELSE b

Index(step) == {i \in 1 .. Len(log) : log[i] = step}
Ran(step) == Index(step) # {}

\* C1: a successful call saves a square image whose width and height are
\* (moduleCount + 2*border) * box_size with moduleCount = 17 + 4*version for
\* the version in 1..40 the encoder selected, with and without a logo
C1_SavedSize ==
    pc = "done" =>
        /\ qr.version \in 1 .. 40
        /\ Saved.w = (17 + 4 * qr.version + 2 * args.border) * args.box_size
        /\ Saved.h = Saved.w
        /\ DOMAIN Saved.px = 0 .. (Saved.w - 1)
        /\ \A x \in DOMAIN Saved.px : DOMAIN Saved.px[x] = 0 .. (Saved.h - 1)

C1_Witness ==
    /\ pc = "done" /\ LogoGiven /\ Ran("paste")
    /\ qr.version = 2 /\ args.box_size = 2 /\ args.border = 1

\* C2: with a logo, every pixel of the saved image inside the centred square
\* of side min(W,H)//8 + 20 is white, except where the pasted logo is
\* non-transparent
C2_CentralRegionWhite ==
    (pc = "done" /\ LogoGiven) =>
        LET side == Min(Saved.w, Saved.h) \div 8
            R == side + 20
            left == (Saved.w - R) \div 2
            top == (Saved.h - R) \div 2
            lx == (Saved.w - side) \div 2
            ly == (Saved.h - side) \div 2
        IN  \A x \in Max(left, 0) .. Min(left + R - 1, Saved.w - 1),
               y \in Max(top, 0) .. Min(top + R - 1, Saved.h - 1) :
                \/ Saved.px[x][y] = White
                \/ /\ x - lx \in 0 .. (side - 1)
                   /\ y - ly \in 0 .. (side - 1)
                   /\ logo.px[x - lx][y - ly][2] # 0

C2_Witness ==
    /\ pc = "done" /\ LogoGiven
    /\ LET side == Min(Saved.w, Saved.h) \div 8
           left == (Saved.w - (side + 20)) \div 2
       IN  /\ \E x \in left .. (left + side + 19), y \in left .. (left + side + 19) :
                raster.px[x][y] = Black /\ Saved.px[x][y] = White
           /\ \E x \in left .. (left + side + 19), y \in left .. (left + side + 19) :
                Saved.px[x][y] # White
           /\ \E u \in 0 .. (side - 1), v \in 0 .. (side - 1) : logo.px[u][v][2] = 0

\* C3: when the logo path is None or the empty string (also a prompt answer
\* that is empty once its surrounding double quotes are stripped), no logo
\* step runs and the saved image is exactly the rasterized QR image
C3_NoLogoNoChange ==
    /\ (stdin # << >> /\ \A i \in 1 .. Len(stdin[2]) : stdin[2][i] = Quote)
          => args.logo_path = Str(<< >>)
    /\ (calls > 0 /\ ~LogoGiven) =>
          /\ pc \notin LogoSteps
          /\ \A i \in 1 .. Len(log) : log[i] \notin LogoSteps
          /\ loaded = Absent
          /\ error.at \notin LogoSteps
          /\ Ran("make_image") => img = raster
          /\ pc = "done" => Saved = raster /\ Saved = MakeImage(qr)

C3_Witness ==
    /\ pc = "done"
    /\ stdin # << >> /\ stdin[2] = <<Quote, Quote>>
    /\ \E x \in 0 .. (Saved.w - 1), y \in 0 .. (Saved.h - 1) : Saved.px[x][y] = Black

\* C4: a failure is terminal (the call stops where it failed and nothing
\* follows), and a failure before the final save leaves no file written
C4_FailureTerminal ==
    error.exc # "none" =>
        /\ pc = "failed"
        /\ ~ENABLED Next
        /\ writes = 0
        /\ error.at # "save" => (fs = fs0 /\ ~Ran("save"))

C4_Witness ==
    /\ pc = "failed" /\ error.at = "open" /\ Ran("make_image")
    /\ fs = fs0 /\ fs[args.filename] = Absent

\* C5: two calls with identical arguments and the same logo file contents
\* save identical images
C5_SameArgsSameImage ==
    (pc = "done" /\ prev.ok /\ loaded = prev.loaded) => Saved = prev.out

C5_Witness ==
    /\ pc = "done" /\ prev.ok /\ loaded = prev.loaded /\ LogoGiven /\ calls = 2
    /\ Saved = prev.out

\* C6: at most one file write per call, exactly one when it succeeds, and it
\* is the last step, after encoding, rasterizing and (with a logo) loading,
\* resizing, drawing the padding rectangle and pasting; the rectangle is
\* drawn strictly before the logo is pasted
C6_OneWriteLast ==
    /\ writes <= 1
    /\ writes = Cardinality(Index("save"))
    /\ pc = "done" => writes = 1
    /\ \A i \in Index("save") :
          /\ i = Len(log)
          /\ \A st \in {"QRCode", "add_data", "make", "make_image"} :
                \E j \in Index(st) : j < i
          /\ LogoGiven => \A st \in LogoSteps : \E j \in Index(st) : j < i
    /\ \A i \in Index("paste") : \E j \in Index("rectangle") : j < i

C6_Witness ==
    /\ pc = "done" /\ LogoGiven /\ writes = 1 /\ calls = 2
    /\ log[Len(log)] = "save"

\* C7: the white padding painted on the raster is exactly the logo's box
\* expanded by 10 pixels on each of its four sides: (side + 20) x (side + 20)
\* pixels are painted and no pixel outside them is touched
C7_PaddingTenEachSide ==
    pc = "paste" =>
        LET x0 == logo_position[1]
            y0 == logo_position[2]
            side == logo.w
        IN  \A x \in 0 .. (img.w - 1), y \in 0 .. (img.h - 1) :
                IF /\ x0 - 10 <= x /\ x < x0 + side + 10
                   /\ y0 - 10 <= y /\ y < y0 + side + 10
                THEN img.px[x][y] = White
                ELSE img.px[x][y] = raster.px[x][y]

\* C8: the logo, whatever its size and aspect ratio, is resized to
\* (side, side) with side = min(W, H) // 8 and placed at
\* ((W - side) // 2, (H - side) // 2); the margins left/top and right/bottom
\* of it differ by at most 1 pixel
C8_ResizedAndCentred ==
    pc = "rectangle" =>
        LET side == Min(width, height) \div 8
            x0 == logo_position[1]
            y0 == logo_position[2]
            dx == (width - side - x0) - x0
            dy == (height - side - y0) - y0
        IN  /\ logo.w = side /\ logo.h = side
            /\ DOMAIN logo.px = 0 .. (side - 1)
            /\ \A u \in DOMAIN logo.px : DOMAIN logo.px[u] = 0 .. (side - 1)
            /\ logo_position = <<(width - side) \div 2, (height - side) \div 2>>
            /\ dx \in {-1, 0, 1} /\ dy \in {-1, 0, 1}

C8_Witness ==
    /\ pc = "rectangle"
    /\ loaded.img.w # loaded.img.h
    /\ qr.version = 40
    /\ (width - logo.w) % 2 = 1

\* C9: with a logo, for every version, box_size and border the padding
\* rectangle lies entirely inside the raster and covers less than 30% of the
\* raster's area
C9_PaddingInsideAndSmall ==
    pc = "rectangle" =>
        LET r == rectangle_position
        IN  /\ r[1] >= 0 /\ r[2] >= 0
            /\ r[3] <= width - 1 /\ r[4] <= height - 1
            /\ 10 * (r[3] - r[1] + 1) * (r[4] - r[2] + 1) < 3 * width * height

\* C10: with a logo, for every version, box_size and border the logo side is
\* at least 1 (the resize never gets a zero dimension) and the logo's box
\* lies inside the raster
C10_LogoFits ==
    /\ error.at # "resize"
    /\ pc \in {"position", "rectangle"} => logo_size >= 1
    /\ pc = "rectangle" =>
          /\ logo_position[1] >= 0 /\ logo_position[2] >= 0
          /\ logo_position[1] + logo.w <= width
          /\ logo_position[2] + logo.h <= height

C10_Witness ==
    /\ pc = "rectangle" /\ width = 23 /\ logo_size = 2
    /\ logo_position = <<10, 10>>

====
